---- MODULE Spec2Model ----
(***************************************************************************)
(* Terminal Coder orchestration core: the Store (tasks, phases, sessions,  *)
(* events), the Scheduler, the Session Manager, the Review Coordinator,    *)
(* the Retry Policy, the Engine tick and the reporting channel (MCP tools).*)
(* One engine tick is one action (the engine is a single asyncio task and  *)
(* _tick contains no await); reporting-channel calls and worker exits are  *)
(* separate actions that interleave with ticks.                            *)
(***************************************************************************)
EXTENDS Integers, Sequences, FiniteSets, TLC

VARIABLES
    tasks,          \* Store table tasks: sequence of rows, index = rowid = task id
    deps,           \* Store table task_dependencies: set of <<task_id, depends_on_id>>
    phases,         \* Store table phases: sequence of rows, index = id = sequence
    projectStatus,  \* Store: projects.status of the single project
    sessions,       \* Store table sessions: sequence of rows, index = session id
    events,         \* Store table events (append-only)
    active,         \* SessionManager._active: insertion-ordered dict session_id -> pane_id
    busQueue,       \* EventBus._queue: events published by the engine
    paused,         \* OrchestrationEngine._paused
    stopped,        \* OrchestrationEngine._stopped
    pc,             \* position of OrchestrationEngine.run: "start", "loop", "done", "raised"
    worker,         \* per session: state of the worker process started in the pane
    paneExit,       \* per pane: exit code printed last in the pane ("exit code: N")
    taskLog,        \* history: every write of a task status (old, new, context)
    calls,          \* number of report_failure calls made so far
    api,            \* outcomes of the direct calls made so far (Store, tools)
    controls,       \* number of operator commands issued so far
    inflight,       \* reporting-channel calls between their read and their writes
    fnArgs,         \* arguments of the function call under study
    fnResult,       \* what that call returned or raised ("none" before it)
    bus             \* EventBus: subscribers, calls in progress, deliveries, drains

vars == <<tasks, deps, phases, projectStatus, sessions, events, active, busQueue,
          paused, stopped, pc, worker, paneExit, taskLog, calls, api, controls,
          inflight, fnArgs, fnResult, bus>>

(***************************************************************************)
(* Bounds                                                                  *)
(***************************************************************************)
MaxPlanTasks == 2
MaxPhases == 2
MaxFailureReports == 1
MaxDirectCalls == 1
MaxControls == 2
MaxConcurrentCalls == 2
MaxRetryValue == 3
MaxSubscribers == 2
MaxPublished == 2
MaxDrains == 2
MaxDbRows == 2
MaxDbLeafRows == 1
MaxQueryTasks == 3

(***************************************************************************)
(* Enumerations (core/enums.py) and transition tables (state_machine.py)   *)
(***************************************************************************)
TaskStatus == {"pending", "queued", "running", "completed", "failed",
               "retrying", "paused", "skipped"}

TaskType == {"coding", "review", "security_review", "deployment",
             "verification", "planning"}

CodingFamily == {"coding", "deployment", "verification", "planning"}

ReviewFamily == {"review", "security_review"}

ActiveSessionStatus == {"pending", "starting", "running"}

TerminalSessionStatus == {"completed", "failed", "killed", "timed_out"}

VALID_TASK_TRANSITIONS ==
    [s \in TaskStatus |->
        CASE s = "pending"  -> {"queued", "skipped"}
          [] s = "queued"   -> {"running", "skipped"}
          [] s = "running"  -> {"completed", "failed"}
          [] s = "failed"   -> {"retrying", "paused", "skipped"}
          [] s = "retrying" -> {"running"}
          [] s = "paused"   -> {"queued", "skipped"}
          [] OTHER          -> {}]

\* the project id every row carries, and the id the Session Manager asks for
ProjectId == "project"

NoProjectId == ""

GlobalMaxRetries == 1

\* what the stored plan may hold per task: the kind, whether the task's name
\* or description matches the scheduler's security keywords, and max_retries
\* (the Store's default 1, or 0 for a task that must not be retried)
PlainCoding == [task_type |-> "coding", security |-> FALSE, max_retries |-> 1]

PlanTaskKinds ==
    {PlainCoding,
     [task_type |-> "coding", security |-> TRUE, max_retries |-> 1],
     [task_type |-> "coding", security |-> FALSE, max_retries |-> 0],
     [task_type |-> "deployment", security |-> FALSE, max_retries |-> 1],
     [task_type |-> "review", security |-> FALSE, max_retries |-> 1]}

(***************************************************************************)
(* The whole program state as one record, so that the sequential steps of  *)
(* a handler can be composed as functions on states.                       *)
(***************************************************************************)
St ==
    [tasks |-> tasks, deps |-> deps, phases |-> phases,
     projectStatus |-> projectStatus, sessions |-> sessions, events |-> events,
     active |-> active, busQueue |-> busQueue, paused |-> paused,
     stopped |-> stopped, worker |-> worker, paneExit |-> paneExit,
     taskLog |-> taskLog]

Commit(s) ==
    /\ tasks' = s.tasks
    /\ deps' = s.deps
    /\ phases' = s.phases
    /\ projectStatus' = s.projectStatus
    /\ sessions' = s.sessions
    /\ events' = s.events
    /\ active' = s.active
    /\ busQueue' = s.busQueue
    /\ paused' = s.paused
    /\ stopped' = s.stopped
    /\ worker' = s.worker
    /\ paneExit' = s.paneExit
    /\ taskLog' = s.taskLog

TaskIds(s) == DOMAIN s.tasks

SessionIds(s) == DOMAIN s.sessions

PhaseIds(s) == DOMAIN s.phases

(***************************************************************************)
(* Store (db/repository.py, db/queries.py)                                 *)
(***************************************************************************)
update_project_status(s, status) == [s EXCEPT !.projectStatus = status]

update_phase_status(s, phase_id, status) ==
    [s EXCEPT !.phases[phase_id].status = status]

get_tasks_by_phase(s, phase_id) ==
    {t \in TaskIds(s) : s.tasks[t].phase_id = phase_id}

get_tasks_by_status(s, status) ==
    {t \in TaskIds(s) : s.tasks[t].status = status}

\* UPDATE_TASK_STATUS / UPDATE_TASK_STARTED / UPDATE_TASK_COMPLETED: the row is
\* written whatever its current status is.  taskLog records the write together
\* with what held in the Store at that moment.
update_task_status(s, task_id, status) ==
    [s EXCEPT
        !.tasks[task_id].status = status,
        !.tasks[task_id].started_at = IF status = "running" THEN TRUE ELSE @,
        !.tasks[task_id].completed_at = IF status = "completed" THEN TRUE ELSE @,
        !.taskLog = @ \cup
            {[task |-> task_id,
              old |-> s.tasks[task_id].status,
              new |-> status,
              task_type |-> s.tasks[task_id].task_type,
              deps_completed |->
                  \A e \in s.deps :
                      e[1] = task_id => s.tasks[e[2]].status = "completed",
              earlier_phases_terminal |->
                  \A p \in PhaseIds(s) :
                      p < s.tasks[task_id].phase_id
                          => s.phases[p].status \in {"completed", "skipped"}]}]

\* UPDATE_TASK_ERROR: error_context = ?, retry_count = retry_count + 1
update_task_error(s, task_id) ==
    [s EXCEPT !.tasks[task_id].error_context = TRUE,
              !.tasks[task_id].retry_count = @ + 1]

create_task(s, phase_id, sequence, task_type) ==
    [s EXCEPT !.tasks = Append(@,
        [phase_id |-> phase_id, sequence |-> sequence, task_type |-> task_type,
         status |-> "pending", retry_count |-> 0, max_retries |-> 1,
         error_context |-> FALSE, started_at |-> FALSE, completed_at |-> FALSE,
         security |-> FALSE])]

add_task_dependency(s, task_id, depends_on_id) ==
    [s EXCEPT !.deps = @ \cup {<<task_id, depends_on_id>>}]

\* mutant of get_pending_tasks_with_met_deps: the NOT EXISTS clause is dropped
get_pending_tasks_ignoring_deps(s) ==
    {t \in TaskIds(s) : s.tasks[t].status = "pending"}

\* SELECT_PENDING_TASKS_WITH_MET_DEPENDENCIES (the rows, before ORDER BY)
get_pending_tasks_with_met_deps(s) ==
    {t \in TaskIds(s) :
        /\ s.tasks[t].status = "pending"
        /\ ~ \E e \in s.deps :
                e[1] = t /\ s.tasks[e[2]].status # "completed"}

\* the orders in which the rows of a set can be returned
RowOrders(rows) ==
    {r \in [1..Cardinality(rows) -> rows] :
        \A i, j \in 1..Cardinality(rows) : i # j => r[i] # r[j]}

\* SELECT_PENDING_TASKS_WITH_MET_DEPENDENCIES as a list: ORDER BY t.sequence,
\* the sequence of the task within its phase; rows with equal sequence come
\* in an order SQL leaves open
select_pending_tasks_with_met_dependencies(s) ==
    {r \in RowOrders(get_pending_tasks_with_met_deps(s)) :
        \A i, j \in DOMAIN r :
            i < j => s.tasks[r[i]].sequence <= s.tasks[r[j]].sequence}

create_session(s, task_id, project_id, session_type, tmux_pane) ==
    [s EXCEPT !.sessions = Append(@,
        [task_id |-> task_id, project_id |-> project_id,
         session_type |-> session_type, tmux_pane |-> tmux_pane,
         status |-> "pending", exit_code |-> -1, written |-> {}])]

\* SELECT_ACTIVE_SESSIONS
get_active_sessions(s, project_id) ==
    {i \in SessionIds(s) :
        /\ s.sessions[i].project_id = project_id
        /\ s.sessions[i].status \in ActiveSessionStatus}

\* UPDATE_SESSION_STATUS / UPDATE_SESSION_STARTED / UPDATE_SESSION_COMPLETED:
\* the row is written whatever its current status is.  The field written is
\* history: the (old, new) pairs of the writes of the row's status.
update_session_status(s, session_id, status) ==
    [s EXCEPT !.sessions[session_id].status = status,
              !.sessions[session_id].written =
                  @ \cup {<<s.sessions[session_id].status, status>>}]

update_session_started(s, session_id) ==
    [s EXCEPT !.sessions[session_id].status = "running",
              !.sessions[session_id].written =
                  @ \cup {<<s.sessions[session_id].status, "running">>}]

update_session_completed(s, session_id, status, exit_code) ==
    [s EXCEPT !.sessions[session_id].status = status,
              !.sessions[session_id].exit_code = exit_code,
              !.sessions[session_id].written =
                  @ \cup {<<s.sessions[session_id].status, status>>}]

create_event(s, entity_type, entity_id, event_type, old_value, new_value) ==
    [s EXCEPT !.events = Append(@,
        [entity_type |-> entity_type, entity_id |-> entity_id,
         event_type |-> event_type, old_value |-> old_value,
         new_value |-> new_value])]

\* EventBus.publish as used by OrchestrationEngine._publish: the engine passes
\* no old_value / new_value
publish(s, event_type, entity_type, entity_id, message) ==
    [s EXCEPT !.busQueue = Append(@,
        [event_type |-> event_type, entity_type |-> entity_type,
         entity_id |-> entity_id, message |-> message,
         old_value |-> "None", new_value |-> "None"])]

PhaseStatus == {"pending", "in_progress", "completed", "failed", "skipped"}

SessionStatus == ActiveSessionStatus \cup TerminalSessionStatus

ProjectStatus == {"initialized", "planning", "planned", "running", "paused",
                  "completed", "failed"}

VALID_PHASE_TRANSITIONS ==
    [s \in PhaseStatus |->
        CASE s = "pending"     -> {"in_progress", "skipped"}
          [] s = "in_progress" -> {"completed", "failed", "skipped"}
          [] s = "completed"   -> {}
          [] s = "failed"      -> {"in_progress"}
          [] s = "skipped"     -> {}]

VALID_SESSION_TRANSITIONS ==
    [s \in SessionStatus |->
        CASE s = "pending"   -> {"starting", "failed"}
          [] s = "starting"  -> {"running", "failed"}
          [] s = "running"   -> {"completed", "failed", "killed", "timed_out"}
          [] s = "completed" -> {}
          [] s = "failed"    -> {}
          [] s = "killed"    -> {}
          [] s = "timed_out" -> {}]

\* a member of one of the enum classes: the class and the value
EnumMembers ==
    [cls : {"TaskStatus"}, value : TaskStatus]
        \cup [cls : {"PhaseStatus"}, value : PhaseStatus]
        \cup [cls : {"SessionStatus"}, value : SessionStatus]
        \cup [cls : {"ProjectStatus"}, value : ProjectStatus]

\* mutant of validate_transition: a status may be kept
validate_transition_allowing_self(current, target) ==
    IF current.cls # target.cls \/ current.cls = "ProjectStatus"
    THEN "InvalidTransitionError"
    ELSE LET transitions ==
                 CASE current.cls = "TaskStatus" -> VALID_TASK_TRANSITIONS
                   [] current.cls = "PhaseStatus" -> VALID_PHASE_TRANSITIONS
                   [] current.cls = "SessionStatus" -> VALID_SESSION_TRANSITIONS
         IN  IF target.value \notin transitions[current.value] \cup {current.value}
             THEN "InvalidTransitionError"
             ELSE "True"

\* state_machine.validate_transition: the isinstance chain picks the table,
\* anything else raises; then the lookup in the table
validate_transition(current, target) ==
    IF current.cls # target.cls \/ current.cls = "ProjectStatus"
    THEN "InvalidTransitionError"
    ELSE LET transitions ==
                 CASE current.cls = "TaskStatus" -> VALID_TASK_TRANSITIONS
                   [] current.cls = "PhaseStatus" -> VALID_PHASE_TRANSITIONS
                   [] current.cls = "SessionStatus" -> VALID_SESSION_TRANSITIONS
         IN  IF target.value \notin transitions[current.value]
             THEN "InvalidTransitionError"
             ELSE "True"

(***************************************************************************)
(* Event bus (core/events.py).  busQueue is EventBus._queue; the record     *)
(* bus holds the subscriber list, the publish calls in progress and, as     *)
(* history, what was appended, delivered, returned and drained.            *)
(***************************************************************************)
Threads == {1, 2}

NoCall == [active |-> FALSE, event |-> 0, next |-> 0, registered |-> 0]

\* EventBus.__init__
NewEventBus ==
    [subscribers |-> <<>>,
     publishing  |-> [th \in Threads |-> NoCall],
     appended    |-> <<>>,
     delivered   |-> <<>>,
     returned    |-> {},
     drained     |-> <<>>]

\* EventBus.subscribe: under the lock
subscribe(b, callback) ==
    [b EXCEPT !.subscribers = Append(@, callback)]

\* mutant of call_subscriber: an exception of the callback leaves publish
call_subscriber_propagating(b, th) ==
    LET c == b.publishing[th]
        raises == b.subscribers[c.next].raises
        b1 == [b EXCEPT !.delivered =
                   Append(@, [subscriber |-> c.next, event |-> c.event])]
    IN  IF raises
        THEN [b1 EXCEPT !.publishing[th] = NoCall,
                        !.returned = @ \cup
                            {[event |-> c.event, registered |-> c.registered,
                              raised |-> TRUE]}]
        ELSE [b1 EXCEPT !.publishing[th].next = @ + 1]

\* EventBus.publish, one turn of the loop over _subscribers: the callback is
\* called, and an Exception it raises is caught and dropped
call_subscriber(b, th) ==
    LET c == b.publishing[th]
    IN  [b EXCEPT !.delivered =
                      Append(@, [subscriber |-> c.next, event |-> c.event]),
                  !.publishing[th].next = @ + 1]

\* mutant of drain: the buffer is not cleared
drain_keeping_queue(queue) == [events |-> queue, queue |-> queue]

\* EventBus.drain: copy and clear, under the lock
drain(queue) == [events |-> queue, queue |-> <<>>]

(***************************************************************************)
(* The Store's tables and foreign keys (db/schema.py SCHEMA_DDL), for      *)
(* databases that hold several projects.  A database is a record of sets   *)
(* of rows; only the key columns are kept.  Connections are opened with    *)
(* PRAGMA foreign_keys = ON (db/connection.py), so the keys are enforced.  *)
(***************************************************************************)
Projects == {"A", "B"}

Ids(rows) == {r.id : r \in rows}

\* the parent rows every foreign key of the schema points to exist
ForeignKeysHold(db) ==
    /\ \A r \in db.phases : r.project_id \in db.projects
    /\ \A r \in db.tasks :
          r.project_id \in db.projects /\ r.phase_id \in Ids(db.phases)
    /\ \A d \in db.task_dependencies :
          d.task_id \in Ids(db.tasks) /\ d.depends_on_id \in Ids(db.tasks)
    /\ \A r \in db.sessions :
          r.project_id \in db.projects /\ r.task_id \in Ids(db.tasks)
    /\ \A r \in db.events : r.project_id \in db.projects
    /\ \A r \in db.bootstrap_checks : r.project_id \in db.projects

\* mutant of delete_project: tasks.project_id has no ON DELETE CASCADE
delete_project_tasks_by_phase_only(db, project_id) ==
    LET kept_phases == {r \in db.phases : r.project_id # project_id}
        kept_tasks == {r \in db.tasks : r.phase_id \in Ids(kept_phases)}
    IN  [projects |-> db.projects \ {project_id},
         phases |-> kept_phases,
         tasks |-> kept_tasks,
         task_dependencies |->
             {d \in db.task_dependencies :
                 d.task_id \in Ids(kept_tasks) /\ d.depends_on_id \in Ids(kept_tasks)},
         sessions |-> {r \in db.sessions :
                          r.project_id # project_id /\ r.task_id \in Ids(kept_tasks)},
         events |-> {r \in db.events : r.project_id # project_id},
         bootstrap_checks |->
             {r \in db.bootstrap_checks : r.project_id # project_id}]

\* DELETE FROM projects WHERE id = ?: every REFERENCES ... ON DELETE CASCADE of
\* the schema removes the child rows of a removed parent row, table by table
delete_project(db, project_id) ==
    LET kept_phases == {r \in db.phases : r.project_id # project_id}
        kept_tasks == {r \in db.tasks :
                     r.project_id # project_id /\ r.phase_id \in Ids(kept_phases)}
    IN  [projects |-> db.projects \ {project_id},
         phases |-> kept_phases,
         tasks |-> kept_tasks,
         task_dependencies |->
             {d \in db.task_dependencies :
                 d.task_id \in Ids(kept_tasks) /\ d.depends_on_id \in Ids(kept_tasks)},
         sessions |-> {r \in db.sessions :
                          r.project_id # project_id /\ r.task_id \in Ids(kept_tasks)},
         events |-> {r \in db.events : r.project_id # project_id},
         bootstrap_checks |->
             {r \in db.bootstrap_checks : r.project_id # project_id}]

(***************************************************************************)
(* Retry Policy (core/retry_policy.py)                                     *)
(***************************************************************************)
Min(a, b) == IF a < b THEN a ELSE b

\* mutant of policy_should_retry: the task's own limit is ignored
policy_should_retry_ignoring_task_limit(max_retries, task) ==
    task.retry_count < max_retries

\* RetryPolicy(max_retries).should_retry(task)
policy_should_retry(max_retries, task) ==
    task.retry_count < Min(task.max_retries, max_retries)

\* the engine's policy is RetryPolicy() with the default limit
should_retry(task) == policy_should_retry(GlobalMaxRetries, task)

(***************************************************************************)
(* Scheduler (core/scheduler.py)                                           *)
(***************************************************************************)
\* mutant of phase_ready: the loop over the prior phases is dropped
phase_ready_without_prior_check(s, t) ==
    s.tasks[t].phase_id \in PhaseIds(s)

phase_ready(s, t) ==
    /\ s.tasks[t].phase_id \in PhaseIds(s)
    /\ \A p \in PhaseIds(s) :
           s.phases[p].sequence < s.phases[s.tasks[t].phase_id].sequence
               => s.phases[p].status \in {"completed", "skipped"}

\* The loop of next_coding_task over one list of rows: the first
\* coding-family row whose phase is ready.  The result is a set: empty for
\* None.
first_ready_coding_row(s, rows) ==
    LET hits == {i \in DOMAIN rows :
                    /\ s.tasks[rows[i]].task_type \in CodingFamily
                    /\ phase_ready(s, rows[i])}
    IN  IF hits = {} THEN {}
        ELSE {rows[CHOOSE i \in hits : \A j \in hits : i <= j]}

\* The rows come ORDER BY t.sequence; the first coding-family row whose phase
\* is ready is returned.  Rows with equal sequence (tasks of different phases)
\* have no defined relative order, so any of them may come first.
\* The result is a set: empty for None.
next_coding_task(s) ==
    LET eligible == {t \in get_pending_tasks_with_met_deps(s) :
                        /\ s.tasks[t].task_type \in CodingFamily
                        /\ phase_ready(s, t)}
    IN  {t \in eligible :
            \A u \in eligible : s.tasks[t].sequence <= s.tasks[u].sequence}

\* SELECT_TASKS_BY_STATUS has no ORDER BY: the rows come in rowid order.
next_review_task(s) ==
    LET queued == {t \in get_tasks_by_status(s, "queued") :
                      s.tasks[t].task_type \in ReviewFamily}
    IN  {t \in queued : \A u \in queued : t <= u}

has_schedulable(s) ==
    \/ get_pending_tasks_with_met_deps(s) # {}
    \/ get_tasks_by_status(s, "queued") # {}

\* mutant of all_complete: a task not yet started counts as done
all_complete_counting_pending(s) ==
    \A t \in TaskIds(s) :
        s.tasks[t].status \in {"completed", "skipped", "pending"}

all_complete(s) ==
    \A t \in TaskIds(s) : s.tasks[t].status \in {"completed", "skipped"}

is_security_relevant(s, t) == s.tasks[t].security

(***************************************************************************)
(* Session Manager (orchestrator/session_manager.py, tmux/)                *)
(***************************************************************************)
allocate_pane(task_type) ==
    IF task_type \in ReviewFamily THEN "review" ELSE "coding"

active_pop(s, session_id) ==
    [s EXCEPT !.active = SelectSeq(@, LAMBDA a : a.session_id # session_id)]

\* TmuxManager.send_command: the worker command starts in the pane
send_command(s) == [s EXCEPT !.worker = Append(@, "running")]

spawn(s, task_id) ==
    LET session_id == Len(s.sessions) + 1
        pane_id == allocate_pane(s.tasks[task_id].task_type)
        s1 == create_session(s, task_id, ProjectId,
                             s.tasks[task_id].task_type, pane_id)
        s2 == send_command(s1)
        s3 == update_session_status(s2, session_id, "running")
        s4 == update_session_started(s3, session_id)
    IN  [s4 EXCEPT !.active =
            Append(@, [session_id |-> session_id, pane_id |-> pane_id])]

\* tmux/monitor.py check_session: the pane is busy while a worker process runs
\* in it; otherwise the exit code is read from the pane output (0 when no
\* "exit code:" line was printed).
check_session(s, pane_id) ==
    IF \E i \in SessionIds(s) :
           s.sessions[i].tmux_pane = pane_id /\ s.worker[i] = "running"
    THEN [exited |-> FALSE, exit_code |-> -1]
    ELSE [exited |-> TRUE, exit_code |-> s.paneExit[pane_id]]

get_project_id_from_session(session_id) == NoProjectId

RECURSIVE check_active_loop(_, _, _)
check_active_loop(s, items, results) ==
    IF items = <<>> THEN [st |-> s, results |-> results]
    ELSE
        LET it == Head(items)
            active_sessions ==
                get_active_sessions(s, get_project_id_from_session(it.session_id))
        IN  IF it.session_id \notin active_sessions
            THEN check_active_loop(active_pop(s, it.session_id), Tail(items), results)
            ELSE
                LET result == check_session(s, it.pane_id)
                    entry == [session_id |-> it.session_id,
                              task_id |-> s.sessions[it.session_id].task_id,
                              result |-> result]
                IN  check_active_loop(
                        IF result.exited THEN active_pop(s, it.session_id) ELSE s,
                        Tail(items), Append(results, entry))

check_active(s) == check_active_loop(s, s.active, <<>>)

has_active_coding(s) == \E i \in DOMAIN s.active : s.active[i].pane_id = "coding"

has_active_review(s) == \E i \in DOMAIN s.active : s.active[i].pane_id = "review"

(***************************************************************************)
(* Review Coordinator (orchestrator/review_coordinator.py)                 *)
(***************************************************************************)
SetMax(S) == IF S = {} THEN 0 ELSE CHOOSE m \in S : \A x \in S : x <= m

\* mutant of schedule_review_of_type: the review takes the phase's highest
\* sequence instead of the next one
schedule_review_reusing_sequence(s, completed_task, task_type) ==
    LET review_id == Len(s.tasks) + 1
        phase_id == s.tasks[completed_task].phase_id
        max_seq == SetMax({s.tasks[t].sequence : t \in get_tasks_by_phase(s, phase_id)})
        s1 == create_task(s, phase_id, max_seq, task_type)
        s2 == add_task_dependency(s1, review_id, completed_task)
        s3 == update_task_status(s2, review_id, "queued")
    IN  create_event(s3, "task", review_id, "review_scheduled", "", "scheduled")

schedule_review_of_type(s, completed_task, task_type) ==
    LET review_id == Len(s.tasks) + 1
        phase_id == s.tasks[completed_task].phase_id
        max_seq == SetMax({s.tasks[t].sequence : t \in get_tasks_by_phase(s, phase_id)})
        s1 == create_task(s, phase_id, max_seq + 1, task_type)
        s2 == add_task_dependency(s1, review_id, completed_task)
        s3 == update_task_status(s2, review_id, "queued")
    IN  create_event(s3, "task", review_id, "review_scheduled", "", "scheduled")

schedule_review(s, completed_task) ==
    schedule_review_of_type(s, completed_task, "review")

schedule_security_review(s, completed_task) ==
    schedule_review_of_type(s, completed_task, "security_review")

(***************************************************************************)
(* Engine (orchestrator/engine.py)                                         *)
(***************************************************************************)
check_phase_completion(s, t) ==
    LET phase_id == s.tasks[t].phase_id
        all_done == \A u \in get_tasks_by_phase(s, phase_id) :
                        s.tasks[u].status \in {"completed", "skipped"}
    IN  IF all_done
        THEN publish(update_phase_status(s, phase_id, "completed"),
                     "status_changed", "phase", phase_id, "Phase completed")
        ELSE s

\* mutant of start_phase_if_needed: the phase is left as it is
start_phase_never(s, t) == s

start_phase_if_needed(s, t) ==
    LET phase_id == s.tasks[t].phase_id
    IN  IF phase_id \in PhaseIds(s) /\ s.phases[phase_id].status = "pending"
        THEN publish(update_phase_status(s, phase_id, "in_progress"),
                     "status_changed", "phase", phase_id, "Phase started")
        ELSE s

handle_completion(s, t, session_id) ==
    LET s1 == update_session_completed(s, session_id, "completed", 0)
        s2 == update_task_status(s1, t, "completed")
        s3 == publish(s2, "status_changed", "task", t, "Task completed")
        s4 == check_phase_completion(s3, t)
    IN  IF s.tasks[t].task_type = "coding"
        THEN LET s5 == schedule_review(s4, t)
             IN  IF is_security_relevant(s, t)
                 THEN schedule_security_review(s5, t)
                 ELSE s5
        ELSE s4

handle_failure(s, t, session_id) ==
    LET s1 == update_session_completed(s, session_id, "failed", 1)
        s2 == update_task_status(s1, t, "failed")
        s3 == update_task_error(s2, t)
        s4 == publish(s3, "error", "task", t, "Task failed")
    IN  IF should_retry(s4.tasks[t])
        THEN publish(
                 update_task_status(update_task_status(s4, t, "retrying"),
                                    t, "running"),
                 "retried", "task", t, "Retrying task")
        ELSE publish(update_task_status(s4, t, "paused"),
                     "paused", "task", t, "Task paused after max retries")

RECURSIVE check_sessions_loop(_, _)
check_sessions_loop(s, results) ==
    IF results = <<>> THEN s
    ELSE
        LET r == Head(results)
        IN  IF ~ r.result.exited
            THEN check_sessions_loop(s, Tail(results))
            ELSE IF r.result.exit_code = 0
            THEN check_sessions_loop(
                     handle_completion(s, r.task_id, r.session_id), Tail(results))
            ELSE check_sessions_loop(
                     handle_failure(s, r.task_id, r.session_id), Tail(results))

\* mutant of check_sessions: the tick does not look at its sessions
check_sessions_skipped(s) == s

check_sessions(s) ==
    LET c == check_active(s) IN check_sessions_loop(c.st, c.results)

\* mutant of dispatch_task: the task is set to running without passing queued
dispatch_task_skipping_queued(s, t) ==
    publish(spawn(update_task_status(s, t, "running"), t),
            "status_changed", "task", t, "Task dispatched")

dispatch_task(s, t) ==
    LET s1 == IF s.tasks[t].status = "pending"
              THEN update_task_status(s, t, "queued")
              ELSE s
        s2 == update_task_status(s1, t, "running")
        s3 == spawn(s2, t)
    IN  publish(s3, "status_changed", "task", t, "Task dispatched")

\* step 6 of _tick
deadlock_check(s) ==
    IF /\ s.active = <<>>
       /\ ~ has_schedulable(s)
       /\ ~ all_complete(s)
       /\ get_tasks_by_status(s, "running") = {}
       /\ get_tasks_by_status(s, "retrying") = {}
    THEN [publish(s, "paused", "project", 0, "Deadlock detected")
             EXCEPT !.paused = TRUE]
    ELSE s

\* step 4 of _tick
dispatch_review(s) ==
    IF ~ has_active_review(s) /\ next_review_task(s) # {}
    THEN dispatch_task(s, CHOOSE t \in next_review_task(s) : TRUE)
    ELSE s

\* step 2 of _tick
complete_project(s) ==
    [publish(update_project_status(s, "completed"),
             "status_changed", "project", 0, "All tasks completed")
        EXCEPT !.stopped = TRUE]

(***************************************************************************)
(* Initial states: a stored plan (cli/commands/plan_cmd.py _store_plan).   *)
(* Phases get sequence 1..np; the tasks of a phase get sequence 1..k in    *)
(* plan order, so rowids ascend with (phase, sequence).  Dependencies are  *)
(* resolved by name and may point anywhere, also forwards or to the task   *)
(* itself.                                                                 *)
(***************************************************************************)
PlanPhaseOf(n, np) ==
    {f \in [1..n -> 1..np] : \A i, j \in 1..n : i < j => f[i] <= f[j]}

\* at most one task of the plan is not a plain coding task
PlanKindOf(n) ==
    {f \in [1..n -> PlanTaskKinds] :
        Cardinality({i \in 1..n : f[i] # PlainCoding}) <= 1}

\* each task depends on nothing or on its predecessor in the plan; the first
\* task's predecessor is the last one (a forward edge, a self-loop when n = 1)
PlanDepsOf(n) ==
    {d \in SUBSET {<<i, IF i = 1 THEN n ELSE i - 1>> : i \in 1..n} : TRUE}

PlanTask(i, ph, kd) ==
    [phase_id |-> ph[i],
     sequence |-> Cardinality({j \in 1..i : ph[j] = ph[i]}),
     task_type |-> kd[i].task_type, status |-> "pending", retry_count |-> 0,
     max_retries |-> kd[i].max_retries, error_context |-> FALSE, started_at |-> FALSE,
     completed_at |-> FALSE, security |-> kd[i].security]

Init ==
    \E n \in 0..MaxPlanTasks, np \in 0..MaxPhases :
      /\ n > 0 => np > 0
      /\ \E ph \in PlanPhaseOf(n, np), kd \in PlanKindOf(n) :
           tasks = [i \in 1..n |-> PlanTask(i, ph, kd)]
      /\ deps \in PlanDepsOf(n)
      /\ phases = [p \in 1..np |-> [sequence |-> p, status |-> "pending"]]
      /\ projectStatus = "planned"
      /\ sessions = <<>>
      /\ events = <<[entity_type |-> "project", entity_id |-> 0,
                     event_type |-> "status_changed", old_value |-> "planning",
                     new_value |-> "planned"]>>
      /\ active = <<>>
      /\ busQueue = <<>>
      /\ paused = FALSE
      /\ stopped = FALSE
      /\ pc = "start"
      /\ worker = <<>>
      /\ paneExit = [p \in {"coding", "review"} |-> 0]
      /\ taskLog = {}
      /\ calls = 0
      /\ api = <<>>
      /\ controls = 0
      /\ inflight = {}
      /\ fnArgs = <<>>
      /\ fnResult = "none"
      /\ bus = NewEventBus

\* a process that only calls a function of the library: no project is stored
\* and no engine runs
NoProject ==
    /\ tasks = <<>>
    /\ deps = {}
    /\ phases = <<>>
    /\ projectStatus = "initialized"
    /\ sessions = <<>>
    /\ events = <<>>
    /\ active = <<>>
    /\ busQueue = <<>>
    /\ paused = FALSE
    /\ stopped = FALSE
    /\ pc = "start"
    /\ worker = <<>>
    /\ paneExit = [p \in {"coding", "review"} |-> 0]
    /\ taskLog = {}
    /\ calls = 0
    /\ api = <<>>
    /\ controls = 0
    /\ inflight = {}
    /\ bus = NewEventBus

\* a call of a function returns: only the result changes
Returns(result) ==
    /\ fnResult = "none"
    /\ fnResult' = result
    /\ UNCHANGED <<tasks, deps, phases, projectStatus, sessions, events, active,
                   busQueue, paused, stopped, pc, worker, paneExit, taskLog,
                   calls, api, controls, inflight, fnArgs, bus>>

(***************************************************************************)
(* Actions                                                                 *)
(***************************************************************************)
\* OrchestrationEngine.run, before the loop
Run ==
    /\ pc = "start"
    /\ Commit(publish(update_project_status(St, "running"),
                      "status_changed", "project", 0, "Engine started"))
    /\ pc' = "loop"
    /\ UNCHANGED <<calls, api, controls, inflight, fnArgs, fnResult, bus>>

\* OrchestrationEngine._tick, one iteration of the run loop.  The state after
\* each step is bound before the next step reads it.
tick(s) ==
    UNION {
        IF all_complete(s1)
        THEN {[st |-> complete_project(s1), pc |-> "done"]}
        ELSE IF s1.paused
        THEN {[st |-> s1, pc |-> "loop"]}
        ELSE UNION {
            IF has_active_coding(s2) \/ next_coding_task(s2) = {}
            THEN {[st |-> deadlock_check(s2), pc |-> "loop"]}
            ELSE UNION {UNION {
                    {[st |-> deadlock_check(dispatch_task(s3, t)), pc |-> "loop"]}
                    : s3 \in {start_phase_if_needed(s2, t)}}
                 : t \in next_coding_task(s2)}
            : s2 \in {dispatch_review(s1)}}
        : s1 \in {check_sessions(s)}}

Tick ==
    /\ pc = "loop"
    /\ ~ stopped
    /\ \E r \in tick(St) :
          /\ Commit(r.st)
          /\ pc' = r.pc
    /\ UNCHANGED <<calls, api, controls, inflight, fnArgs, fnResult, bus>>

\* the worker process of a session ends and the pane prints "exit code: N"
WorkerExit(i, code) ==
    /\ i \in DOMAIN worker
    /\ worker[i] = "running"
    /\ worker' = [worker EXCEPT ![i] = "exited"]
    /\ paneExit' = [paneExit EXCEPT ![sessions[i].tmux_pane] = code]
    /\ UNCHANGED <<tasks, deps, phases, projectStatus, sessions, events, active,
                   busQueue, paused, stopped, pc, taskLog, calls, api, controls, inflight, fnArgs, fnResult, bus>>

\* the calls of client c that have read the task and not yet returned
InflightOf(c) == {r \in inflight : r.client = c}

\* the MCP server is a stdio child of the worker process: a reporting call
\* on a task comes from a worker of that task that is still running, and the
\* server handles one call at a time
worker_alive(task_id) ==
    \E i \in DOMAIN sessions :
        /\ sessions[i].task_id = task_id
        /\ worker[i] = "running"
        /\ InflightOf(i) = {}

\* mcp/tools.py tc_report_completion
tc_report_completion(task_id) ==
    /\ task_id \in DOMAIN tasks
    /\ worker_alive(task_id)
    /\ tasks[task_id].status = "running"
    /\ Commit(create_event(update_task_status(St, task_id, "completed"),
                           "task", task_id, "status_changed", "running", "completed"))
    /\ UNCHANGED <<pc, calls, api, controls, inflight, fnArgs, fnResult, bus>>

\* mcp/tools.py tc_report_failure
tc_report_failure(task_id) ==
    /\ task_id \in DOMAIN tasks
    /\ worker_alive(task_id)
    /\ tasks[task_id].status = "running"
    /\ calls < MaxFailureReports
    /\ calls' = calls + 1
    /\ Commit(create_event(update_task_error(St, task_id),
                           "task", task_id, "error", "", "error_type"))
    /\ UNCHANGED <<pc, api, controls, inflight, fnArgs, fnResult, bus>>

\* a caller of the Store: Repository.update_task_status(task_id, status)
StoreUpdateTaskStatus(task_id, status) ==
    /\ Len(api) < MaxDirectCalls
    /\ task_id \in DOMAIN tasks
    /\ LET s1 == update_task_status(St, task_id, status)
       IN  /\ Commit(s1)
           /\ api' = Append(api,
                  [task |-> task_id, target |-> status, raised |-> FALSE,
                   before |-> tasks[task_id], after |-> s1.tasks[task_id]])
    /\ UNCHANGED <<pc, calls, controls, inflight, fnArgs, fnResult, bus>>

Next ==
    \/ Run
    \/ Tick
    \/ \E i \in DOMAIN worker, code \in {0, 1} : WorkerExit(i, code)
    \/ \E t \in DOMAIN tasks : tc_report_completion(t)
    \/ \E t \in DOMAIN tasks : tc_report_failure(t)

Spec == Init /\ [][Next]_vars

\* the engine coroutine is started, and its loop calls _tick every
\* POLL_INTERVAL_SECS until stopped
FairSpec == Spec /\ WF_vars(Run) /\ WF_vars(Tick)

\* the engine and its workers, plus direct callers of the Store
StoreNext ==
    \/ Next
    \/ \E t \in DOMAIN tasks, st \in TaskStatus : StoreUpdateTaskStatus(t, st)

StoreSpec == Init /\ [][StoreNext]_vars

(***************************************************************************)
(* Operator commands: the CLI (pause, resume, kill) writes the Store from  *)
(* its own process; the TUI calls the engine's pause / resume / stop.      *)
(***************************************************************************)
\* cli/commands/pause_cmd.py pause_command
pause_command ==
    /\ controls < MaxControls
    /\ controls' = controls + 1
    /\ Commit(update_project_status(St, "paused"))
    /\ UNCHANGED <<pc, calls, api, inflight, fnArgs, fnResult, bus>>

\* cli/commands/pause_cmd.py resume_command
resume_command ==
    /\ controls < MaxControls
    /\ controls' = controls + 1
    /\ Commit(update_project_status(St, "running"))
    /\ UNCHANGED <<pc, calls, api, inflight, fnArgs, fnResult, bus>>

\* mutant of pause_engine: the flag is flipped
pause_engine_toggling(s) ==
    [publish(s, "paused", "project", 0, "Engine paused")
        EXCEPT !.paused = ~ s.paused]

\* OrchestrationEngine.pause
pause_engine(s) ==
    [publish(s, "paused", "project", 0, "Engine paused")
        EXCEPT !.paused = TRUE]

\* OrchestrationEngine.resume
resume_engine(s) ==
    [publish(s, "resumed", "project", 0, "Engine resumed")
        EXCEPT !.paused = FALSE]

\* OrchestrationEngine.stop
stop_engine(s) ==
    [publish(s, "status_changed", "project", 0, "Engine stopped")
        EXCEPT !.stopped = TRUE]

\* the TUI's pause key
pause ==
    /\ controls < MaxControls
    /\ controls' = controls + 1
    /\ Commit(pause_engine(St))
    /\ UNCHANGED <<pc, calls, api, inflight, fnArgs, fnResult, bus>>

\* the TUI's resume key
resume ==
    /\ controls < MaxControls
    /\ controls' = controls + 1
    /\ Commit(resume_engine(St))
    /\ UNCHANGED <<pc, calls, api, inflight, fnArgs, fnResult, bus>>

\* the TUI's kill key, or Ctrl-C in run_command; the run loop ends at its
\* next test of _stopped
stop ==
    /\ controls < MaxControls
    /\ controls' = controls + 1
    /\ Commit(stop_engine(St))
    /\ pc' = IF pc = "loop" THEN "done" ELSE pc
    /\ UNCHANGED <<calls, api, inflight, fnArgs, fnResult, bus>>

\* cli/commands/kill_cmd.py kill_command --session: the session row is marked
\* killed; neither the pane nor the task is touched
kill_command(session_id) ==
    /\ controls < MaxControls
    /\ controls' = controls + 1
    /\ session_id \in DOMAIN sessions
    /\ Commit(update_session_status(St, session_id, "killed"))
    /\ UNCHANGED <<pc, calls, api, inflight, fnArgs, fnResult, bus>>

\* SessionManager.kill_session: C-c to the pane, the session row is marked
\* killed and leaves the slot map
kill_session(session_id) ==
    /\ controls < MaxControls
    /\ controls' = controls + 1
    /\ \E k \in DOMAIN active : active[k].session_id = session_id
    /\ Commit(active_pop(
           [update_session_status(St, session_id, "killed")
               EXCEPT !.worker[session_id] = "exited"],
           session_id))
    /\ UNCHANGED <<pc, calls, api, inflight, fnArgs, fnResult, bus>>

ControlNext ==
    \/ Next
    \/ pause_command
    \/ resume_command
    \/ pause
    \/ resume
    \/ stop
    \/ \E i \in DOMAIN sessions : kill_command(i)
    \/ \E i \in DOMAIN sessions : kill_session(i)

ControlSpec == Init /\ [][ControlNext]_vars

(***************************************************************************)
(* The engine's reap handlers, applied to a (session, result) pair as      *)
(* _check_sessions applies them when the Session Manager reports a session *)
(* whose pane has exited.                                                  *)
(***************************************************************************)
ReportedExit(i, codes) ==
    /\ i \in DOMAIN sessions
    /\ sessions[i].status \in ActiveSessionStatus
    /\ worker[i] = "exited"
    /\ paneExit[sessions[i].tmux_pane] \in codes

\* _check_sessions: result.exited and result.exit_code == 0
HandleCompletion(i) ==
    /\ ReportedExit(i, {0})
    /\ Len(api) < MaxDirectCalls
    /\ api' = Append(api, [handler |-> "completion", session |-> i])
    /\ Commit(handle_completion(active_pop(St, i), sessions[i].task_id, i))
    /\ UNCHANGED <<pc, calls, controls, inflight, fnArgs, fnResult, bus>>

\* _check_sessions: result.exited and result.exit_code != 0
HandleFailure(i) ==
    /\ ReportedExit(i, {1})
    /\ Len(api) < MaxDirectCalls
    /\ api' = Append(api, [handler |-> "failure", session |-> i])
    /\ Commit(handle_failure(active_pop(St, i), sessions[i].task_id, i))
    /\ UNCHANGED <<pc, calls, controls, inflight, fnArgs, fnResult, bus>>

ReapNext ==
    \/ Next
    \/ \E i \in DOMAIN sessions : HandleCompletion(i)
    \/ \E i \in DOMAIN sessions : HandleFailure(i)

ReapSpec == Init /\ [][ReapNext]_vars

(***************************************************************************)
(* The reporting channel as the MCP server serves it (mcp/server.py,       *)
(* mcp/tools.py): a call names a tool and a task id, which may be unknown. *)
(* Each tool returns the new Store and whether it raised.                  *)
(***************************************************************************)
ToolNames == {"tc_report_progress", "tc_report_completion",
              "tc_report_failure", "tc_report_review",
              "tc_get_context", "tc_request_human_input"}

ToolError(s) == [st |-> s, error |-> TRUE]

ToolOk(s) == [st |-> s, error |-> FALSE]

report_progress(s, task_id) ==
    IF s.tasks[task_id].status # "running" THEN ToolError(s)
    ELSE ToolOk(create_event(s, "task", task_id, "status_changed", "", "progress"))

report_completion(s, task_id) ==
    IF s.tasks[task_id].status # "running" THEN ToolError(s)
    ELSE ToolOk(create_event(update_task_status(s, task_id, "completed"),
                             "task", task_id, "status_changed",
                             "running", "completed"))

\* mutant of report_failure: the status check is dropped
report_failure_unchecked(s, task_id) ==
    ToolOk(create_event(update_task_error(s, task_id),
                        "task", task_id, "error", "", "error_type"))

report_failure(s, task_id) ==
    IF s.tasks[task_id].status # "running" THEN ToolError(s)
    ELSE ToolOk(create_event(update_task_error(s, task_id),
                             "task", task_id, "error", "", "error_type"))

\* mutant of report_review: a critical verdict also fails the reviewed task
report_review_failing_task(s, task_id, verdict) ==
    IF s.tasks[task_id].task_type \notin ReviewFamily THEN ToolError(s)
    ELSE ToolOk(create_event(
            IF verdict = "critical_issues"
            THEN update_task_status(s, task_id, "failed") ELSE s,
            "task", task_id,
            IF verdict = "critical_issues" THEN "error" ELSE "status_changed",
            "", verdict))

report_review(s, task_id, verdict) ==
    IF s.tasks[task_id].task_type \notin ReviewFamily THEN ToolError(s)
    ELSE ToolOk(create_event(s, "task", task_id,
                             IF verdict = "critical_issues"
                             THEN "error" ELSE "status_changed",
                             "", verdict))

get_context(s, task_id) == ToolOk(s)

request_human_input(s, task_id) ==
    ToolOk(create_event(s, "task", task_id, "human_input_requested", "", ""))

\* server.py call_tool / _dispatch_tool: Repository.get_task raises for an
\* unknown id, and every exception becomes an error result
dispatch_tool(s, name, task_id, verdict) ==
    IF task_id \notin TaskIds(s) THEN ToolError(s)
    ELSE CASE name = "tc_report_progress" -> report_progress(s, task_id)
           [] name = "tc_report_completion" -> report_completion(s, task_id)
           [] name = "tc_report_failure" -> report_failure(s, task_id)
           [] name = "tc_report_review" -> report_review(s, task_id, verdict)
           [] name = "tc_get_context" -> get_context(s, task_id)
           [] name = "tc_request_human_input" -> request_human_input(s, task_id)

\* the rows of the Store a reporting call can see
StoreOf(s) ==
    [tasks |-> s.tasks, events |-> s.events, phases |-> s.phases,
     sessions |-> s.sessions, projectStatus |-> s.projectStatus]

call_tool(name, task_id, verdict) ==
    /\ Len(api) < MaxDirectCalls
    /\ \E r \in {dispatch_tool(St, name, task_id, verdict)} :
          /\ Commit(r.st)
          /\ api' = Append(api,
                 [tool |-> name, task |-> task_id, verdict |-> verdict,
                  error |-> r.error,
                  before |-> StoreOf(St), after |-> StoreOf(r.st)])
    /\ UNCHANGED <<pc, calls, controls, inflight, fnArgs, fnResult, bus>>

ToolNext ==
    \/ Next
    \/ \E name \in ToolNames, t \in 1..(Len(tasks) + 1),
          verdict \in {"approved", "critical_issues"} :
            \* only tc_report_review takes a verdict
            /\ name # "tc_report_review" => verdict = "approved"
            /\ call_tool(name, t, verdict)

ToolSpec == Init /\ [][ToolNext]_vars

(***************************************************************************)
(* tc_report_completion as the Store sees it.  The tool opens its own      *)
(* connection and makes three Repository calls, get_task,                  *)
(* update_task_status and create_event; each write commits on its own and  *)
(* nothing spans them, so other processes' reads and writes come between.  *)
(* A client is a worker session that is still running; the tool takes the  *)
(* task id as an argument and does not check who calls.                    *)
(***************************************************************************)
\* tools.py 68-70: get_task and the status check
report_completion_get_task(c, task_id) ==
    /\ c \in DOMAIN worker
    /\ worker[c] = "running"
    /\ InflightOf(c) = {}
    /\ Cardinality(inflight) + Len(api) < MaxConcurrentCalls
    /\ task_id \in DOMAIN tasks
    /\ IF tasks[task_id].status # "running"
       THEN /\ api' = Append(api, [client |-> c, task |-> task_id,
                                   error |-> TRUE])
            /\ UNCHANGED inflight
       ELSE /\ inflight' = inflight \cup
                   {[client |-> c, task |-> task_id, step |-> "checked"]}
            /\ UNCHANGED api
    /\ UNCHANGED <<tasks, deps, phases, projectStatus, sessions, events, active,
                   busQueue, paused, stopped, pc, worker, paneExit, taskLog,
                   calls, controls, fnArgs, fnResult, bus>>

\* tools.py 78: update_task_status(task_id, COMPLETED), committed
report_completion_update_task_status(c) ==
    /\ c \in DOMAIN worker
    /\ worker[c] = "running"
    /\ \E r \in InflightOf(c) :
          /\ r.step = "checked"
          /\ Commit(update_task_status(St, r.task, "completed"))
          /\ inflight' = (inflight \ {r}) \cup {[r EXCEPT !.step = "updated"]}
    /\ UNCHANGED <<pc, calls, api, controls, fnArgs, fnResult, bus>>

\* tools.py 79-89: create_event running -> completed, then the success result
report_completion_create_event(c) ==
    /\ c \in DOMAIN worker
    /\ worker[c] = "running"
    /\ \E r \in InflightOf(c) :
          /\ r.step = "updated"
          /\ Commit(create_event(St, "task", r.task, "status_changed",
                                 "running", "completed"))
          /\ inflight' = inflight \ {r}
          /\ api' = Append(api, [client |-> c, task |-> r.task,
                                 error |-> FALSE])
    /\ UNCHANGED <<pc, calls, controls, fnArgs, fnResult, bus>>

RaceNext ==
    \/ Next
    \/ \E c \in DOMAIN worker, t \in DOMAIN tasks :
          report_completion_get_task(c, t)
    \/ \E c \in DOMAIN worker : report_completion_update_task_status(c)
    \/ \E c \in DOMAIN worker : report_completion_create_event(c)

RaceSpec == Init /\ [][RaceNext]_vars

(***************************************************************************)
(* Users of an EventBus: threads that subscribe, publish and drain.        *)
(***************************************************************************)
BusEvent(n) ==
    [event_type |-> "status_changed", entity_type |-> "task", entity_id |-> n,
     message |-> "published", old_value |-> "None", new_value |-> "None"]

BusUnchanged ==
    UNCHANGED <<tasks, deps, phases, projectStatus, sessions, events, active,
                paused, stopped, pc, worker, paneExit, taskLog, calls, api,
                controls, inflight, fnArgs, fnResult>>

Subscribe(raises) ==
    /\ Len(bus.subscribers) < MaxSubscribers
    /\ bus' = subscribe(bus, [raises |-> raises])
    /\ UNCHANGED busQueue
    /\ BusUnchanged

\* publish, up to the release of the lock: the event is in the buffer
PublishAppend(th) ==
    /\ ~ bus.publishing[th].active
    /\ Len(bus.appended) < MaxPublished
    /\ LET e == BusEvent(Len(bus.appended) + 1)
       IN  /\ busQueue' = Append(busQueue, e)
           /\ bus' = [bus EXCEPT
                  !.appended = Append(@, e),
                  !.publishing[th] =
                      [active |-> TRUE, event |-> e.entity_id, next |-> 1,
                       registered |-> Len(bus.subscribers)]]
    /\ BusUnchanged

\* publish, the loop: it reads the list as it is at each turn
PublishCall(th) ==
    /\ bus.publishing[th].active
    /\ bus.publishing[th].next <= Len(bus.subscribers)
    /\ bus' = call_subscriber(bus, th)
    /\ UNCHANGED busQueue
    /\ BusUnchanged

PublishReturn(th) ==
    /\ bus.publishing[th].active
    /\ bus.publishing[th].next > Len(bus.subscribers)
    /\ bus' = [bus EXCEPT
           !.publishing[th] = NoCall,
           !.returned = @ \cup
               {[event |-> bus.publishing[th].event,
                 registered |-> bus.publishing[th].registered,
                 raised |-> FALSE]}]
    /\ UNCHANGED busQueue
    /\ BusUnchanged

Drain ==
    /\ Len(bus.drained) < MaxDrains
    /\ \E r \in {drain(busQueue)} :
          /\ busQueue' = r.queue
          /\ bus' = [bus EXCEPT !.drained = Append(@, r.events)]
    /\ BusUnchanged

BusInit ==
    /\ NoProject
    /\ fnArgs = <<>>
    /\ fnResult = "none"

BusNext ==
    \/ \E raises \in BOOLEAN : Subscribe(raises)
    \/ \E th \in Threads : PublishAppend(th)
    \/ \E th \in Threads : PublishCall(th)
    \/ \E th \in Threads : PublishReturn(th)
    \/ Drain

BusSpec == BusInit /\ [][BusNext]_vars

(***************************************************************************)
(* Callers of the library's pure functions                                 *)
(***************************************************************************)
ValidateInit ==
    /\ NoProject
    /\ fnArgs \in [current : EnumMembers, target : EnumMembers]
    /\ fnResult = "none"

CallValidateTransition ==
    Returns(validate_transition(fnArgs.current, fnArgs.target))

ValidateSpec == ValidateInit /\ [][CallValidateTransition]_vars

\* the rows of a table: ids 1..n are used in order, each with its own keys
RowSets(n, keys) ==
    UNION {{{[id |-> i] @@ f[i] : i \in 1..k} : f \in [1..k -> keys]} : k \in 0..n}

\* any database the schema accepts, with both projects stored
Databases ==
    {db \in [projects : {Projects},
             phases : RowSets(MaxDbRows, [project_id : Projects]),
             tasks : RowSets(MaxDbRows,
                             [project_id : Projects, phase_id : 1..MaxDbRows]),
             task_dependencies :
                 SUBSET [task_id : 1..MaxDbRows, depends_on_id : 1..MaxDbRows],
             sessions : RowSets(MaxDbLeafRows,
                                [project_id : Projects, task_id : 1..MaxDbRows]),
             events : RowSets(MaxDbLeafRows, [project_id : Projects]),
             bootstrap_checks : RowSets(MaxDbLeafRows, [project_id : Projects])] :
        ForeignKeysHold(db)}

DeleteInit ==
    /\ NoProject
    /\ \E db \in Databases, project_id \in Projects :
          fnArgs = [project_id |-> project_id, before |-> db, after |-> db]
    /\ fnResult = "none"

\* a caller runs DELETE FROM projects WHERE id = project_id and commits
DeleteProject ==
    /\ fnResult = "none"
    /\ fnResult' = "deleted"
    /\ fnArgs' = [fnArgs EXCEPT
                     !.after = delete_project(fnArgs.before, fnArgs.project_id)]
    /\ UNCHANGED <<tasks, deps, phases, projectStatus, sessions, events, active,
                   busQueue, paused, stopped, pc, worker, paneExit, taskLog,
                   calls, api, controls, inflight, bus>>

DeleteSpec == DeleteInit /\ [][DeleteProject]_vars

\* RetryPolicy() or RetryPolicy(max_retries = n), and a task to ask about
RetryInit ==
    /\ NoProject
    /\ fnArgs \in [policy_given : BOOLEAN,
                   policy_max_retries : 0..MaxRetryValue,
                   retry_count : 0..MaxRetryValue,
                   max_retries : 0..MaxRetryValue]
    /\ ~ fnArgs.policy_given => fnArgs.policy_max_retries = 0
    /\ fnResult = "none"

CallShouldRetry ==
    Returns(IF policy_should_retry(
                  IF fnArgs.policy_given THEN fnArgs.policy_max_retries
                  ELSE GlobalMaxRetries,
                  [retry_count |-> fnArgs.retry_count,
                   max_retries |-> fnArgs.max_retries])
            THEN "True" ELSE "False")

RetrySpec == RetryInit /\ [][CallShouldRetry]_vars

\* A stored plan of up to MaxQueryTasks tasks of which a prefix in plan order
\* has been completed by its workers; a phase is completed when all its tasks
\* are, and the first phase that is not is in progress.
QueryPhaseStatus(tk, p) ==
    LET done(q) == \A i \in DOMAIN tk : tk[i].phase_id = q => tk[i].status = "completed"
    IN  IF done(p) /\ \E i \in DOMAIN tk : tk[i].phase_id = p THEN "completed"
        ELSE IF \A q \in 1..(p - 1) : done(q) THEN "in_progress"
        ELSE "pending"

QueryInit ==
    \E n \in 0..MaxQueryTasks, np \in 0..MaxPhases, k \in 0..MaxQueryTasks :
      /\ n > 0 => np > 0
      /\ k <= n
      /\ \E ph \in PlanPhaseOf(n, np), kd \in PlanKindOf(n) :
           /\ tasks = [i \in 1..n |->
                         [PlanTask(i, ph, kd) EXCEPT
                             !.status = IF i <= k THEN "completed" ELSE "pending"]]
           /\ phases = [p \in 1..np |->
                          [sequence |-> p, status |-> QueryPhaseStatus(tasks, p)]]
      /\ deps \in PlanDepsOf(n)
      /\ projectStatus = "running"
      /\ sessions = <<>>
      /\ events = <<>>
      /\ active = <<>>
      /\ busQueue = <<>>
      /\ paused = FALSE
      /\ stopped = FALSE
      /\ pc = "loop"
      /\ worker = <<>>
      /\ paneExit = [p \in {"coding", "review"} |-> 0]
      /\ taskLog = {}
      /\ calls = 0
      /\ api = <<>>
      /\ controls = 0
      /\ inflight = {}
      /\ fnArgs = [rows |-> <<>>, next |-> {}]
      /\ fnResult = "none"
      /\ bus = NewEventBus

\* Scheduler.next_coding_task: the query's rows and the task picked from them
CallNextCodingTask ==
    /\ fnResult = "none"
    /\ fnResult' = "returned"
    /\ \E rows \in select_pending_tasks_with_met_dependencies(St) :
          fnArgs' = [rows |-> rows, next |-> first_ready_coding_row(St, rows)]
    /\ UNCHANGED <<tasks, deps, phases, projectStatus, sessions, events, active,
                   busQueue, paused, stopped, pc, worker, paneExit, taskLog,
                   calls, api, controls, inflight, bus>>

QuerySpec == QueryInit /\ [][CallNextCodingTask]_vars

(***************************************************************************)
(* A tick that raises: TmuxManager.send_command raises TmuxError when the  *)
(* pane is not found, inside SessionManager.spawn, inside _dispatch_task.  *)
(* The statements before the raise have run; run()'s except clause follows.*)
(***************************************************************************)
\* SessionManager.spawn up to the raise: the session row is created, no
\* command reaches the pane
spawn_raising(s, task_id) ==
    LET s1 == create_session(s, task_id, ProjectId, s.tasks[task_id].task_type,
                             allocate_pane(s.tasks[task_id].task_type))
    IN  [s1 EXCEPT !.worker = Append(@, "not_started")]

\* _dispatch_task up to the raise in spawn
dispatch_task_raising(s, t) ==
    LET s1 == IF s.tasks[t].status = "pending"
              THEN update_task_status(s, t, "queued")
              ELSE s
        s2 == update_task_status(s1, t, "running")
    IN  spawn_raising(s2, t)

\* _tick up to the raise: in the review dispatch, or in the coding dispatch
tick_raising(s) ==
    UNION {
        IF all_complete(s1) \/ s1.paused
        THEN {}
        ELSE (IF ~ has_active_review(s1) /\ next_review_task(s1) # {}
              THEN {dispatch_task_raising(s1, CHOOSE t \in next_review_task(s1) : TRUE)}
              ELSE {})
             \cup
             UNION {
                IF has_active_coding(s2)
                THEN {}
                ELSE {dispatch_task_raising(start_phase_if_needed(s2, t), t)
                        : t \in next_coding_task(s2)}
                : s2 \in {dispatch_review(s1)}}
        : s1 \in {check_sessions(s)}}

\* mutant of run_except: the project's status is left as it is
run_except_without_status(s) ==
    publish(s, "error", "project", 0, "Engine error")

\* OrchestrationEngine.run, the except clause (the raise follows)
run_except(s) ==
    publish(update_project_status(s, "failed"),
            "error", "project", 0, "Engine error")

TickRaises ==
    /\ pc = "loop"
    /\ ~ stopped
    /\ \E s1 \in tick_raising(St) : Commit(run_except(s1))
    /\ pc' = "raised"
    /\ UNCHANGED <<calls, api, controls, inflight, fnArgs, fnResult, bus>>

FailNext ==
    \/ Next
    \/ TickRaises

FailSpec == Init /\ [][FailNext]_vars

(***************************************************************************)
(* tc retry (cli/commands/retry_cmd.py), run by the operator from another  *)
(* process while the engine runs.                                          *)
(***************************************************************************)
retry_command(task_id) ==
    /\ controls < MaxControls
    /\ controls' = controls + 1
    /\ task_id \in DOMAIN tasks
    /\ tasks[task_id].status \in {"failed", "paused"}
    /\ Commit(update_task_status(St, task_id, "queued"))
    /\ UNCHANGED <<pc, calls, api, inflight, fnArgs, fnResult, bus>>

RetryCmdNext ==
    \/ ReapNext
    \/ \E t \in DOMAIN tasks : retry_command(t)

RetryCmdSpec == Init /\ [][RetryCmdNext]_vars

RetryCmdFairSpec == RetryCmdSpec /\ WF_vars(Run) /\ WF_vars(Tick)

(***************************************************************************)
(* Claims                                                                  *)
(***************************************************************************)
HasDeps(t) == \E e \in deps : e[1] = t

\* C1: a task with dependencies leaves `pending` only at a moment when every
\* task it depends on is `completed` in the Store.
C1_DepsCompletedOnLeavingPending ==
    \A e \in taskLog :
        (e.old = "pending" /\ e.new # "pending" /\ HasDeps(e.task))
            => e.deps_completed

\* C1 witness: a task that has a dependency has been moved out of `pending`
\* and is running.
C1_Witness ==
    \E e \in taskLog :
        /\ e.old = "pending" /\ e.new = "queued" /\ HasDeps(e.task)
        /\ tasks[e.task].status = "running"

EarlierPhasesTerminal(t) ==
    \A p \in DOMAIN phases :
        p < tasks[t].phase_id => phases[p].status \in {"completed", "skipped"}

\* C2: a coding-family task is dispatched only when every phase with a lower
\* sequence is completed or skipped, and next_coding_task never returns a task
\* of a phase that has a non-terminal earlier phase.
C2_PhaseGate ==
    /\ \A e \in taskLog :
          (e.task_type \in CodingFamily /\ (e.old = "pending" \/ e.new = "running"))
              => e.earlier_phases_terminal
    /\ \A t \in next_coding_task(St) : EarlierPhasesTerminal(t)

\* C2 witness: the engine has dispatched a task, and a coding-family task of a
\* later phase is pending with all its dependencies met while an earlier phase
\* is not terminal.
C2_Witness ==
    /\ \E e \in taskLog : e.new = "running"
    /\ \E t \in get_pending_tasks_with_met_deps(St) :
          /\ tasks[t].task_type \in CodingFamily
          /\ ~ EarlierPhasesTerminal(t)

\* C3: at most one session in an active status is bound to the coding slot and
\* at most one to the review slot.
C3_OneActiveSessionPerSlot ==
    \A pane \in {"coding", "review"} :
        Cardinality({i \in DOMAIN sessions :
            /\ sessions[i].status \in ActiveSessionStatus
            /\ sessions[i].tmux_pane = pane}) <= 1

C5_InvalidTransitionRejected ==
    \A k \in DOMAIN api :
        api[k].target \notin VALID_TASK_TRANSITIONS[api[k].before.status]
            => (api[k].raised /\ api[k].after = api[k].before)

SessionIdBound == 1..(MaxPlanTasks + 1)

WorkerExited(i) == i \in DOMAIN worker /\ worker[i] = "exited"

\* C6: every session whose worker process has exited is eventually moved to a
\* terminal status by the engine.
C6_ExitedSessionsReaped ==
    \A i \in SessionIdBound :
        WorkerExited(i)
            ~> (i \in DOMAIN sessions
                /\ sessions[i].status \in TerminalSessionStatus)

\* a plan the happy path is about: acyclic, every phase has a task, and every
\* task is of a kind the engine dispatches from `pending`
Acyclic ==
    \E rank \in [DOMAIN tasks -> DOMAIN tasks] :
        \A e \in deps : rank[e[2]] < rank[e[1]]

HappyPlan ==
    /\ Acyclic
    /\ \A p \in DOMAIN phases : \E t \in DOMAIN tasks : tasks[t].phase_id = p
    /\ \A t \in DOMAIN tasks : tasks[t].task_type \in CodingFamily

AllDone ==
    /\ pc = "done"
    /\ projectStatus = "completed"
    /\ \A p \in DOMAIN phases : phases[p].status = "completed"
    /\ \A t \in DOMAIN tasks : tasks[t].status = "completed"

\* C7: for an acyclic plan, if every dispatched worker eventually exits with
\* code 0 and no failure is reported, the engine eventually stops with the
\* project, every phase and every task completed.
C7_HappyPathTerminates ==
    (/\ HappyPlan
     /\ [](paneExit["coding"] = 0 /\ paneExit["review"] = 0 /\ calls = 0)
     /\ \A i \in SessionIdBound : []((i \in DOMAIN worker) => <>WorkerExited(i)))
        => <>AllDone

BusCount(event_type) ==
    Cardinality({k \in DOMAIN busQueue : busQueue[k].event_type = event_type})

FirstWorkerFailed(i, max_retries) ==
    /\ WorkerExited(i)
    /\ paneExit[sessions[i].tmux_pane] = 1
    /\ tasks[sessions[i].task_id].max_retries = max_retries
    /\ tasks[sessions[i].task_id].retry_count = 0
    /\ tasks[sessions[i].task_id].status = "running"
    /\ \A j \in DOMAIN sessions : sessions[j].task_id = sessions[i].task_id => j = i

\* C8: when the first worker of a task with max_retries = 1 and retry_count = 0
\* exits non-zero (and no worker reports a failure itself), the engine
\* eventually records the failure (retry_count = 1), publishes a `retried`
\* event for the task and starts a second session for it.
C8_RetryThenSucceed ==
    \A i \in SessionIdBound :
        FirstWorkerFailed(i, 1)
            ~> \/ calls > 0
               \/ /\ i \in DOMAIN sessions
                  /\ tasks[sessions[i].task_id].retry_count = 1
                  /\ \E k \in DOMAIN busQueue :
                        /\ busQueue[k].event_type = "retried"
                        /\ busQueue[k].entity_id = sessions[i].task_id
                  /\ \E j \in DOMAIN sessions :
                        j # i /\ sessions[j].task_id = sessions[i].task_id

\* C9: in a single-task plan with max_retries = 0, one worker failure
\* eventually leaves the task paused (never retrying) and the engine paused,
\* with exactly one `error` event, one `paused` event and no `retried` event
\* published.
C9_RetryExhaustion ==
    \A i \in SessionIdBound :
        (Len(tasks) = 1 /\ FirstWorkerFailed(i, 0))
            ~> \/ calls > 0
               \/ /\ i \in DOMAIN sessions
                  /\ tasks[sessions[i].task_id].status = "paused"
                  /\ paused
                  /\ \A e \in taskLog : e.new # "retrying"
                  /\ BusCount("error") = 1
                  /\ BusCount("paused") = 1
                  /\ BusCount("retried") = 0

\* C10: retry_count never exceeds max_retries.
C10_RetryCountBounded ==
    \A t \in DOMAIN tasks : tasks[t].retry_count <= tasks[t].max_retries

\* C11: while the project's status in the Store is `paused`, no step moves a
\* task from `pending` or `queued` to `running`.
C11_PauseGate ==
    [][(projectStatus = "paused" /\ projectStatus' = "paused")
          => \A t \in DOMAIN tasks :
                tasks[t].status \in {"pending", "queued"}
                    => tasks'[t].status # "running"]_vars

\* C12: once a tick has detected a deadlock (published "Deadlock detected"),
\* the event is a `paused` event, the engine is paused and the project's
\* status in the Store is `paused`.
C12_DeadlockDetection ==
    \A k \in DOMAIN busQueue :
        busQueue[k].message = "Deadlock detected"
            => /\ busQueue[k].event_type = "paused"
               /\ paused
               /\ projectStatus = "paused"

\* work is outstanding, nothing runs and nothing can be dispatched; as no
\* task status can change from here, nothing becomes dispatchable again
Unschedulable ==
    /\ pc = "loop"
    /\ ~ all_complete(St)
    /\ active = <<>>
    /\ get_tasks_by_status(St, "running") = {}
    /\ get_tasks_by_status(St, "retrying") = {}
    /\ next_coding_task(St) = {}
    /\ next_review_task(St) = {}

\* a pending coding-family task waits for a dependency that is not completed,
\* in a plan of coding-family tasks only
WaitsForDependency ==
    /\ \A t \in DOMAIN tasks : tasks[t].task_type \in CodingFamily
    /\ \E e \in deps :
          tasks[e[1]].status = "pending" /\ tasks[e[2]].status # "completed"

\* C13: whenever work is outstanding but no task can become dispatchable
\* again (here: a task waits for a dependency that can never complete), the
\* engine eventually detects the deadlock and pauses.
C13_NoLivelock == (Unschedulable /\ WaitsForDependency) ~> paused

C15_TerminalSessionTaskNotRunning ==
    \A i \in DOMAIN sessions :
        sessions[i].status \in TerminalSessionStatus
            => tasks[sessions[i].task_id].status # "running"

\* the sessions held in the Session Manager's slot map
SlotMapSessions == {active[k].session_id : k \in DOMAIN active}

\* C16: after every engine tick, the sessions the Store reports as active
\* are exactly the sessions held in the slot map.
C16_StoreMatchesSlotMap ==
    [][Tick => (get_active_sessions(St, ProjectId) = SlotMapSessions)']_vars

\* the number of review tasks the completion of task t must create
ReviewsDue(t) ==
    IF tasks[t].task_type # "coding" THEN 0
    ELSE IF tasks[t].security THEN 2 ELSE 1

ReviewScheduledEvents(evs) ==
    Cardinality({k \in DOMAIN evs : evs[k].event_type = "review_scheduled"})

\* C17: handling the completion of a coding task appends exactly one review
\* task (and one security_review task after it when the task is security
\* relevant) in the same phase, each with sequence = max sequence of the
\* phase + 1 at its creation, status `queued`, one dependency edge on the
\* completed task and one `review_scheduled` event; handling the completion
\* of any other task creates nothing.
C17_ReviewCreation ==
    [][\A i \in DOMAIN sessions :
        HandleCompletion(i) =>
            LET t == sessions[i].task_id
                n == Len(tasks)
                due == ReviewsDue(t)
                max_seq == SetMax({tasks[u].sequence :
                                     u \in get_tasks_by_phase(St, tasks[t].phase_id)})
            IN  /\ Len(tasks') = n + due
                /\ deps' = deps \cup {<<n + j, t>> : j \in 1..due}
                /\ ReviewScheduledEvents(events')
                      = ReviewScheduledEvents(events) + due
                /\ \A j \in 1..due :
                      /\ tasks'[n + j].task_type
                            = (IF j = 1 THEN "review" ELSE "security_review")
                      /\ tasks'[n + j].phase_id = tasks[t].phase_id
                      /\ tasks'[n + j].sequence = max_seq + j
                      /\ tasks'[n + j].status = "queued"]_vars

\* C17 witness: the completion of a security-relevant coding task has been
\* handled: a review and a security review depend on it.
C17_Witness ==
    \E t, r, q \in DOMAIN tasks :
        /\ tasks[t].task_type = "coding" /\ tasks[t].security
        /\ tasks[r].task_type = "review" /\ <<r, t>> \in deps
        /\ tasks[q].task_type = "security_review" /\ <<q, t>> \in deps
        /\ tasks[r].sequence # tasks[q].sequence

\* C18: when the engine has marked the project `completed`, every completed
\* coding task has a review task that depends on it.
C18_ReviewBeforeProjectCompleted ==
    projectStatus = "completed"
        => \A t \in DOMAIN tasks :
              (tasks[t].task_type = "coding" /\ tasks[t].status = "completed")
                  => \E r \in DOMAIN tasks :
                        /\ tasks[r].task_type = "review"
                        /\ <<r, t>> \in deps

\* a call that violates the contract of its tool
ContractViolation(c) ==
    \/ c.task \notin DOMAIN c.before.tasks
    \/ /\ c.tool \in {"tc_report_progress", "tc_report_completion",
                       "tc_report_failure"}
       /\ c.before.tasks[c.task].status # "running"
    \/ /\ c.tool = "tc_report_review"
       /\ c.before.tasks[c.task].task_type \notin ReviewFamily

\* C19: a reporting-channel call that violates its contract returns an error
\* and leaves every task row and the event log unchanged.
C19_ContractViolationChangesNothing ==
    \A k \in DOMAIN api :
        ContractViolation(api[k])
            => (api[k].error /\ api[k].after = api[k].before)

\* C19 witness: report_failure was called for a task that is completed and
\* was refused, with events already in the log.
C19_Witness ==
    \E k \in DOMAIN api :
        /\ api[k].tool = "tc_report_failure"
        /\ api[k].task \in DOMAIN api[k].before.tasks
        /\ api[k].before.tasks[api[k].task].status = "completed"
        /\ api[k].error
        /\ Len(api[k].before.events) > 1

CompletedEvents(t) ==
    {k \in DOMAIN events :
        /\ events[k].entity_type = "task"
        /\ events[k].entity_id = t
        /\ events[k].old_value = "running"
        /\ events[k].new_value = "completed"}

SuccessfulCompletions(t) ==
    {k \in DOMAIN api : api[k].task = t /\ ~ api[k].error}

\* C20: concurrent report_completion calls are serializable: for every task
\* at most one report_completion call succeeds and at most one
\* running -> completed event is recorded.
C20_CompletionSerializable ==
    \A t \in DOMAIN tasks :
        /\ Cardinality(SuccessfulCompletions(t)) <= 1
        /\ Cardinality(CompletedEvents(t)) <= 1

\* the event a successful call of a tool appends, if any
ToolEventKind(c) ==
    CASE c.tool = "tc_report_progress" -> "status_changed"
      [] c.tool = "tc_report_review" ->
            IF c.verdict = "critical_issues" THEN "error" ELSE "status_changed"
      [] c.tool = "tc_request_human_input" -> "human_input_requested"
      [] OTHER -> "none"

\* C21: report_progress, report_review, get_context and request_human_input
\* never change the status of a task, phase, session or project; a successful
\* call appends exactly one event of the tool's kind about the named task, and
\* get_context appends nothing.
C21_ReportingFrame ==
    \A k \in DOMAIN api :
        LET c == api[k] IN
        c.tool \in {"tc_report_progress", "tc_report_review",
                    "tc_get_context", "tc_request_human_input"}
        => /\ c.after.tasks = c.before.tasks
           /\ c.after.phases = c.before.phases
           /\ c.after.sessions = c.before.sessions
           /\ c.after.projectStatus = c.before.projectStatus
           /\ IF c.error \/ c.tool = "tc_get_context"
              THEN c.after.events = c.before.events
              ELSE /\ Len(c.after.events) = Len(c.before.events) + 1
                   /\ SubSeq(c.after.events, 1, Len(c.before.events))
                          = c.before.events
                   /\ c.after.events[Len(c.after.events)].event_type
                          = ToolEventKind(c)
                   /\ c.after.events[Len(c.after.events)].entity_id = c.task

\* C21 witness: while a coding task was running, a review with verdict
\* critical_issues was reported for a review task and the call succeeded.
C21_Witness ==
    \E k \in DOMAIN api :
        /\ api[k].tool = "tc_report_review"
        /\ api[k].verdict = "critical_issues"
        /\ ~ api[k].error
        /\ \E t \in DOMAIN api[k].before.tasks :
              api[k].before.tasks[t].status = "running"

\* the pairs listed in the three transition tables
ListedTransition(current, target) ==
    \/ /\ current.cls = "TaskStatus" /\ target.cls = "TaskStatus"
       /\ target.value \in VALID_TASK_TRANSITIONS[current.value]
    \/ /\ current.cls = "PhaseStatus" /\ target.cls = "PhaseStatus"
       /\ target.value \in VALID_PHASE_TRANSITIONS[current.value]
    \/ /\ current.cls = "SessionStatus" /\ target.cls = "SessionStatus"
       /\ target.value \in VALID_SESSION_TRANSITIONS[current.value]

TerminalStatus(m) ==
    \/ m.cls = "TaskStatus" /\ m.value \in {"completed", "skipped"}
    \/ m.cls = "PhaseStatus" /\ m.value \in {"completed", "skipped"}
    \/ m.cls = "SessionStatus" /\ m.value \in TerminalSessionStatus

\* C22: validate_transition returns True exactly for the pairs listed in the
\* task, phase and session tables and raises InvalidTransitionError for every
\* other pair, among them self-transitions, transitions out of a terminal
\* status and pairs of two entity kinds.
C22_ValidateTransition ==
    fnResult # "none" =>
        /\ fnResult = "True" <=> ListedTransition(fnArgs.current, fnArgs.target)
        /\ fnResult = "InvalidTransitionError"
              <=> ~ ListedTransition(fnArgs.current, fnArgs.target)
        /\ (\/ fnArgs.current = fnArgs.target
            \/ TerminalStatus(fnArgs.current)
            \/ fnArgs.current.cls # fnArgs.target.cls)
              => fnResult = "InvalidTransitionError"

\* C22 witness: a self-transition of a task status was refused.
C22_Witness ==
    /\ fnResult = "InvalidTransitionError"
    /\ fnArgs.current = fnArgs.target
    /\ fnArgs.current.cls = "TaskStatus"

\* the global limit of the policy asked: 1 unless given
GlobalLimit == IF fnArgs.policy_given THEN fnArgs.policy_max_retries ELSE 1

\* C23: should_retry(task) is true exactly when retry_count is below both the
\* task's max_retries and the global limit (1 by default), and false as soon
\* as either limit is reached.
C23_ShouldRetry ==
    fnResult # "none" =>
        /\ fnResult = "True"
              <=> (/\ fnArgs.retry_count < fnArgs.max_retries
                   /\ fnArgs.retry_count < GlobalLimit)
        /\ (\/ fnArgs.retry_count >= fnArgs.max_retries
            \/ fnArgs.retry_count >= GlobalLimit)
              => fnResult = "False"

\* C23 witness: the default policy refused a task that has reached its own
\* limit of 0 but not the global limit.
C23_Witness ==
    /\ fnResult = "False"
    /\ ~ fnArgs.policy_given
    /\ fnArgs.retry_count = 0
    /\ fnArgs.max_retries = 0

EveryTaskCompletedOrSkipped ==
    \A t \in DOMAIN tasks : tasks[t].status \in {"completed", "skipped"}

\* C24: all_complete is true exactly when every task is completed or skipped
\* (so for an empty plan); the engine sets the project to completed only in a
\* tick at whose end that holds; and for an empty plan the first tick sets it,
\* stops the engine and dispatches nothing.
C24_AllComplete ==
    /\ [](all_complete(St) <=> EveryTaskCompletedOrSkipped)
    /\ [][(projectStatus # "completed" /\ projectStatus' = "completed")
            => (Tick /\ EveryTaskCompletedOrSkipped')]_vars
    /\ [][(Tick /\ tasks = <<>>)
            => (/\ projectStatus' = "completed"
                /\ stopped'
                /\ pc' = "done"
                /\ tasks' = <<>>
                /\ sessions' = <<>>)]_vars

\* C24 witness: the engine has run on an empty plan and completed the project.
C24_Witness ==
    /\ tasks = <<>>
    /\ projectStatus = "completed"
    /\ pc = "done"

\* the engine's flags and the Store, without the bus buffer
FlagsAndStore(s) == [s EXCEPT !.busQueue = <<>>]

\* what the next tick can make of a state, seen the same way
NextTickOutcomes(s) ==
    IF s.stopped THEN {}
    ELSE {[st |-> FlagsAndStore(r.st), pc |-> r.pc] : r \in tick(s)}

SameFlagsStoreAndDispatch(s1, s2) ==
    /\ FlagsAndStore(s1) = FlagsAndStore(s2)
    /\ NextTickOutcomes(s1) = NextTickOutcomes(s2)

\* C25: pause, resume and stop are idempotent: in every state, calling one of
\* them twice in a row leaves the engine's flags and the Store as calling it
\* once does, and the next tick dispatches the same tasks.
C25_ControlsIdempotent ==
    /\ SameFlagsStoreAndDispatch(pause_engine(pause_engine(St)), pause_engine(St))
    /\ SameFlagsStoreAndDispatch(resume_engine(resume_engine(St)),
                                 resume_engine(St))
    /\ SameFlagsStoreAndDispatch(stop_engine(stop_engine(St)), stop_engine(St))

\* C25 witness: pause was called twice in a row while a task was waiting to
\* be dispatched.
C25_Witness ==
    /\ paused
    /\ Len(busQueue) >= 2
    /\ busQueue[Len(busQueue)].message = "Engine paused"
    /\ busQueue[Len(busQueue) - 1].message = "Engine paused"
    /\ \E t \in DOMAIN tasks : tasks[t].status = "pending"
    /\ pc = "loop"

\* the turns of the subscriber loops at which subscriber i was called with
\* event e
Deliveries(i, e) ==
    {k \in DOMAIN bus.delivered :
        bus.delivered[k] = [subscriber |-> i, event |-> e]}

InBufferOrDrained(e) ==
    \/ \E k \in DOMAIN busQueue : busQueue[k].entity_id = e
    \/ \E d \in DOMAIN bus.drained :
          \E k \in DOMAIN bus.drained[d] : bus.drained[d][k].entity_id = e

\* C26: a publish call never raises because of a subscriber: whichever
\* subscribers throw, every subscriber registered when the call began has been
\* called exactly once with the event, in registration order, when the call
\* returns, and the event is in the buffer (or drained from it).
C26_SubscriberErrorsContained ==
    \A c \in bus.returned :
        /\ ~ c.raised
        /\ \A i \in 1..c.registered : Cardinality(Deliveries(i, c.event)) = 1
        /\ \A i, j \in 1..c.registered :
              i < j => \A ki \in Deliveries(i, c.event),
                          kj \in Deliveries(j, c.event) : ki < kj
        /\ InBufferOrDrained(c.event)

\* C26 witness: a publish call returned with two subscribers registered, the
\* first of which throws.
C26_Witness ==
    \E c \in bus.returned :
        /\ c.registered = 2
        /\ bus.subscribers[1].raises
        /\ ~ bus.subscribers[2].raises
        /\ Deliveries(2, c.event) # {}

RECURSIVE Concat(_)
Concat(seqs) ==
    IF seqs = <<>> THEN <<>> ELSE Head(seqs) \o Concat(Tail(seqs))

\* C27: every published event is exactly once in what the drains returned
\* followed by the buffer, in publication order; a drain returns the whole
\* buffer and leaves it empty, so that a drain right after it returns nothing.
\* Publish, subscribe and drain of different threads interleave.
C27_BufferExactlyOnce ==
    /\ [](Concat(bus.drained) \o busQueue = bus.appended)
    /\ [][Drain => (/\ busQueue' = <<>>
                    /\ bus'.drained[Len(bus'.drained)] = busQueue)]_vars
    /\ [][(Drain /\ Len(bus.drained) > 0 /\ busQueue = <<>>)
            => bus'.drained[Len(bus'.drained)] = <<>>]_vars

\* C27 witness: two drains each returned an event while a publish call of
\* another thread was still calling subscribers.
C27_Witness ==
    /\ Len(bus.drained) = 2
    /\ bus.drained[1] # <<>>
    /\ bus.drained[2] # <<>>
    /\ \E th \in Threads : bus.publishing[th].active

\* the events published during the step
PublishedInStep ==
    {busQueue'[k] : k \in (Len(busQueue) + 1)..Len(busQueue')}

\* C28: every status transition of a task made by a tick of the engine is
\* published as an event about the task that carries the old and the new
\* status; here, at least the status the tick left the task in is the new
\* value of an event published in that tick.
C28_TransitionEventPerStep ==
    [][Tick =>
        \A t \in DOMAIN tasks :
            tasks'[t].status # tasks[t].status =>
                \E e \in PublishedInStep :
                    /\ e.entity_type = "task"
                    /\ e.entity_id = t
                    /\ e.new_value = tasks'[t].status
                    /\ e.old_value \in TaskStatus]_vars

RunningWithLiveWorker(i) ==
    /\ i \in DOMAIN sessions
    /\ sessions[i].status = "running"
    /\ worker[i] = "running"

\* C29: while the engine runs, a running session does not hold its slot for
\* ever: its worker exits or the session is moved to timed_out.
C29_SessionTimeout ==
    \A i \in SessionIdBound :
        RunningWithLiveWorker(i)
            ~> (\/ pc = "done"
                \/ i \in DOMAIN sessions
                   /\ (worker[i] = "exited" \/ sessions[i].status = "timed_out"))

\* C30: the stored task-dependency graph has no self-loop and no cycle, after
\* the plan is stored and after any review tasks have been added.
C30_DependencyGraphAcyclic ==
    /\ \A e \in deps : e[1] # e[2]
    /\ Acyclic

\* the tasks that belonged to the project before the delete, by their own
\* project_id or through their phase
TasksOfProject(db, project_id) ==
    {r.id : r \in {t \in db.tasks :
                      \/ t.project_id = project_id
                      \/ \E ph \in db.phases :
                            ph.id = t.phase_id /\ ph.project_id = project_id}}

\* C31: after a project is deleted no phase, task, session, event,
\* task-dependency or bootstrap-check row references it, whatever rows the
\* database held before.
C31_CascadingDelete ==
    fnResult = "deleted" =>
        LET db == fnArgs.after
            gone == fnArgs.project_id
            old_tasks == TasksOfProject(fnArgs.before, gone)
        IN  /\ gone \notin db.projects
            /\ \A r \in db.phases \cup db.tasks \cup db.sessions
                          \cup db.events \cup db.bootstrap_checks :
                  r.project_id # gone
            /\ \A r \in db.sessions : r.task_id \notin old_tasks
            /\ \A d \in db.task_dependencies :
                  d.task_id \notin old_tasks /\ d.depends_on_id \notin old_tasks
            /\ ForeignKeysHold(db)

\* C31 witness: the deleted project had a task in a phase of the other
\* project, with a dependency and a session on it, and rows of the other
\* project are still there.
C31_Witness ==
    /\ fnResult = "deleted"
    /\ \E t \in fnArgs.before.tasks :
          /\ t.project_id = fnArgs.project_id
          /\ \E ph \in fnArgs.before.phases :
                ph.id = t.phase_id /\ ph.project_id # fnArgs.project_id
          /\ \E d \in fnArgs.before.task_dependencies : d.depends_on_id = t.id
          /\ \E x \in fnArgs.before.sessions : x.task_id = t.id
    /\ fnArgs.after.phases # {}

\* the order the specification gives: phase sequence, then task sequence
SpecOrderBefore(t, u) ==
    \/ phases[tasks[t].phase_id].sequence < phases[tasks[u].phase_id].sequence
    \/ /\ phases[tasks[t].phase_id].sequence = phases[tasks[u].phase_id].sequence
       /\ tasks[t].sequence <= tasks[u].sequence

PendingWithCompletedDeps ==
    {t \in DOMAIN tasks :
        /\ tasks[t].status = "pending"
        /\ \A e \in deps : e[1] = t => tasks[e[2]].status = "completed"}

ReadyCodingTasks ==
    {t \in PendingWithCompletedDeps :
        /\ tasks[t].task_type \in {"coding", "deployment", "verification", "planning"}
        /\ phase_ready(St, t)}

\* C32: the query returns exactly the pending tasks whose every dependency is
\* completed, ordered by phase sequence and then task sequence, and
\* next_coding_task returns the first coding-family task with a ready phase
\* in that order, none iff there is no such task.
C32_PendingTasksOrder ==
    fnResult = "returned" =>
        /\ {fnArgs.rows[i] : i \in DOMAIN fnArgs.rows} = PendingWithCompletedDeps
        /\ Len(fnArgs.rows) = Cardinality(PendingWithCompletedDeps)
        /\ \A i, j \in DOMAIN fnArgs.rows :
              i < j => SpecOrderBefore(fnArgs.rows[i], fnArgs.rows[j])
        /\ (fnArgs.next = {}) <=> (ReadyCodingTasks = {})
        /\ \A t \in fnArgs.next :
              t \in ReadyCodingTasks /\ \A u \in ReadyCodingTasks : SpecOrderBefore(t, u)

QueuedReviewExists ==
    \E t \in DOMAIN tasks :
        tasks[t].status = "queued" /\ tasks[t].task_type \in {"review", "security_review"}

\* C33: has_schedulable is true exactly when next_coding_task returns a task
\* or a queued task of kind review / security_review exists.
C33_HasSchedulableExact ==
    has_schedulable(St) <=> (next_coding_task(St) # {} \/ QueuedReviewExists)

\* the sessions a step creates
StartedInStep == (Len(sessions) + 1)..Len(sessions')

\* C34: within one tick the engine reaps (check_sessions empties the slots it
\* drops) before it checks for completion and checks for completion before it
\* dispatches: the step that completes the project leaves no slot occupied
\* and starts nothing.  A step starts at most one session per slot, and when
\* it starts two the review worker is started before the coding worker.
C34_TickOrder ==
    [][/\ Cardinality(StartedInStep) <= 2
       /\ \A i, j \in StartedInStep :
             i < j => /\ sessions'[i].tmux_pane = "review"
                      /\ sessions'[j].tmux_pane = "coding"
       /\ (projectStatus # "completed" /\ projectStatus' = "completed") =>
             /\ StartedInStep = {}
             /\ active' = <<>>
             /\ stopped'
       /\ StartedInStep # {} =>
             /\ ~ EveryTaskCompletedOrSkipped
             /\ projectStatus' # "completed"]_vars

\* C34 witness: the last two sessions are a review worker and a coding worker
\* whose dispatches were published one after the other, and both run
C34_Witness ==
    /\ Len(sessions) >= 2
    /\ Len(busQueue) >= 2
    /\ LET r == Len(sessions) - 1
           c == Len(sessions)
           n == Len(busQueue)
       IN  /\ sessions[r].tmux_pane = "review" /\ sessions[c].tmux_pane = "coding"
           /\ sessions[r].status = "running" /\ sessions[c].status = "running"
           /\ worker[r] = "running" /\ worker[c] = "running"
           /\ busQueue[n - 1].message = "Task dispatched"
           /\ busQueue[n - 1].entity_id = sessions[r].task_id
           /\ busQueue[n].message = "Task dispatched"
           /\ busQueue[n].entity_id = sessions[c].task_id
           /\ \A a \in {r, c} : \E k \in DOMAIN active : active[k].session_id = a

\* C35: when a step of a tick raises, the engine sets the project to failed,
\* publishes an error event for the project and re-raises: run() has ended and
\* no further tick runs (no dispatch, no publication, no project write).
C35_TickRaises ==
    [][/\ (pc # "raised" /\ pc' = "raised") =>
             /\ pc = "loop"
             /\ projectStatus' = "failed"
             /\ Len(busQueue') > Len(busQueue)
             /\ busQueue'[Len(busQueue')].event_type = "error"
             /\ busQueue'[Len(busQueue')].entity_type = "project"
       /\ pc = "raised" =>
             /\ pc' = "raised"
             /\ projectStatus' = "failed"
             /\ busQueue' = busQueue
             /\ active' = active
             /\ Len(sessions') = Len(sessions)
             /\ phases' = phases
             /\ \A t \in DOMAIN tasks :
                   tasks'[t].status \in {tasks[t].status, "completed"}]_vars

\* C35 witness: a dispatch raised in spawn; the engine has ended with the
\* project failed and the error event published last, and a worker that was
\* started before has acted since
C35_Witness ==
    /\ pc = "raised"
    /\ projectStatus = "failed"
    /\ busQueue[Len(busQueue)].event_type = "error"
    /\ \E i \in DOMAIN sessions : sessions[i].status = "pending"
    /\ \E i \in DOMAIN worker : worker[i] = "exited"

\* C36: dispatch moves a task pending -> queued -> running (a queued task
\* queued -> running); the session created for it passes pending -> starting
\* -> running; every change of a session's stored status is an edge of the
\* session transition table (so a terminal session never changes again).
C36_SessionLifecycle ==
    /\ \A e \in taskLog : e.new = "running" => e.old \in {"queued", "retrying"}
    /\ \A i \in DOMAIN sessions :
          /\ \A w \in sessions[i].written :
                w[1] # w[2] => w[2] \in VALID_SESSION_TRANSITIONS[w[1]]
          /\ sessions[i].status = "running" =>
                {<<"pending", "starting">>, <<"starting", "running">>}
                    \subseteq sessions[i].written

\* C37: whenever a phase is completed, every task in it, the review and
\* security_review tasks the coordinator added included, is completed or
\* skipped.
C37_CompletedPhaseTasksDone ==
    \A p \in DOMAIN phases :
        phases[p].status = "completed" =>
            \A t \in DOMAIN tasks :
                tasks[t].phase_id = p => tasks[t].status \in {"completed", "skipped"}

\* C38: at every tick boundary each running task has a worker session that
\* is tracked in the Session Manager's slot map.
C38_RunningTaskTracked ==
    \A t \in DOMAIN tasks :
        tasks[t].status = "running" =>
            \E i \in SlotMapSessions : sessions[i].task_id = t

\* C39: when the engine has set the project to completed and stopped, no
\* worker is still active: every session has a terminal status in the Store
\* and the slot map is empty.
C39_NoWorkerAfterCompletion ==
    (projectStatus = "completed" /\ pc = "done" /\ stopped) =>
        /\ \A i \in DOMAIN sessions : sessions[i].status \in TerminalSessionStatus
        /\ active = <<>>

TaskIdBound == 1..(MaxPlanTasks + 2)

EngineDispatching == pc = "loop" /\ ~ paused /\ ~ stopped

\* C40: while the engine is running and not paused, every queued task is
\* eventually dispatched: a review queued by the coordinator and equally a
\* coding-family task that the retry command moved to queued.
C40_QueuedEventuallyDispatched ==
    \A t \in TaskIdBound :
        (t \in DOMAIN tasks /\ tasks[t].status = "queued" /\ EngineDispatching)
            ~> (\/ ~ EngineDispatching
                \/ t \in DOMAIN tasks /\ tasks[t].status # "queued")

====
